---- MODULE Spec2Model ----
(***************************************************************************)
(* Model of the fluent HTTP request builder Qrequest (qrequest.go).        *)
(* One builder, driven by a single caller.  Strings and byte slices are    *)
(* sequences of one-character strings.  Go pointers that may be nil are    *)
(* records with a `nil` flag.  A run-time panic (nil dereference) is the   *)
(* terminal state `panicked = TRUE`.                                       *)
(***************************************************************************)
EXTENDS Integers, Sequences, FiniteSets, TLC

\* Number of builder operations one behaviour performs.
MaxOps == 3

VARIABLES
    Method,        \* r.Method
    RawQuery,      \* r.Uri.RawQuery (r.req.URL is the same pointer)
    ContentType,   \* r.Header["Content-Type"], <<>> when absent (r.req.Header is the same map)
    Body,          \* r.Body
    Length,        \* r.Length
    req,           \* r.req
    res,           \* r.res
    isBodyClosed,  \* r.isBodyClosed
    Buffer,        \* r.Buffer
    err,           \* r.err
    transport,     \* what http.Client.Do will answer for this builder's request
    sent,          \* the requests http.Client.Do has been handed, in order
    ops,           \* the operations performed so far, with their arguments
    calls,         \* one record per call that reaches r.response(): what it was given and left
    panicked       \* a nil dereference aborted the process

builder == <<Method, RawQuery, ContentType, Body, Length, req, res, isBodyClosed, Buffer, err>>
vars == <<Method, RawQuery, ContentType, Body, Length, req, res, isBodyClosed, Buffer, err,
          transport, sent, ops, calls, panicked>>

-----------------------------------------------------------------------------
\* Values

\* (*bytes.Buffer)(nil), a nil io.ReadCloser
NilBytes == [nil |-> TRUE, b |-> <<>>]
Bytes(s) == [nil |-> FALSE, b |-> s]

\* the nil error
NoError == [kind |-> "nil", msg |-> <<>>]

NilResponse == [nil |-> TRUE, StatusCode |-> 0]
NilRequest == [nil |-> TRUE, Method |-> "", hasBody |-> FALSE, Body |-> <<>>, ContentLength |-> 0]

GET == "GET"
HEAD == "HEAD"
DELETE == "DELETE"
POST == "POST"
PUT == "PUT"
Methods == {GET, HEAD, DELETE, POST, PUT}

DigitChars == <<"0", "1", "2", "3", "4", "5", "6", "7", "8", "9">>
DigitSet == {DigitChars[i] : i \in 1..10}
Lower == <<"a", "e", "j", "n", "o", "s", "t", "x">>
Upper == <<"A", "E", "J", "N", "O", "S", "T", "X">>

\* strconv.Itoa for n >= 0
RECURSIVE Itoa(_)
Itoa(n) == IF n < 10 THEN <<DigitChars[n + 1]>>
           ELSE Itoa(n \div 10) \o <<DigitChars[(n % 10) + 1]>>

\* strings.ToUpper, on the letters the inputs are written in
ToUpperChar(c) == IF \E i \in 1..Len(Lower) : Lower[i] = c
                  THEN Upper[CHOOSE i \in 1..Len(Lower) : Lower[i] = c]
                  ELSE c
ToUpper(s) == [i \in 1..Len(s) |-> ToUpperChar(s[i])]

\* url.Values.Encode: "k=v" pairs joined by "&", keys in sorted order.
\* A url.Values is a sequence of <<key, value>> pairs with distinct one-character keys.
KeyOrder == <<"a", "b", "q">>
RECURSIVE EncodeFrom(_, _, _)
EncodeFrom(kv, i, first) ==
    IF i > Len(KeyOrder) THEN <<>>
    ELSE IF \E j \in 1..Len(kv) : kv[j][1] = KeyOrder[i]
         THEN LET j == CHOOSE j \in 1..Len(kv) : kv[j][1] = KeyOrder[i]
              IN (IF first THEN <<>> ELSE <<"&">>) \o <<kv[j][1], "=", kv[j][2]>>
                 \o EncodeFrom(kv, i + 1, FALSE)
         ELSE EncodeFrom(kv, i + 1, first)
Encode(kv) == EncodeFrom(kv, 1, TRUE)

\* json.Marshal of the values that reach the default branch of Parameters
UnsupportedTypeError == [kind |-> "marshal", msg |-> <<"json: unsupported type: ", "chan int">>]
Marshal(data) ==
    CASE data.type = "int"  -> [b |-> Itoa(data.n), e |-> NoError]
      [] data.type = "nil"  -> [b |-> <<"n", "u", "l", "l">>, e |-> NoError]
      [] OTHER              -> [b |-> <<>>, e |-> UnsupportedTypeError]

\* json.Unmarshal(b, &data) for data of type map[string]interface{}:
\* accepts null and objects {"k":d,...}; anything else is a syntax or type error
\* and leaves data the empty map.  The decoded map is a sequence of <<key, value>>.
SyntaxError == [kind |-> "decode", msg |-> <<"invalid character">>]
KeyChars == {"a", "b", "x"}
RECURSIVE UnmarshalMembers(_, _, _)
UnmarshalMembers(b, i, acc) ==
    IF /\ i + 5 <= Len(b)
       /\ b[i] = "\"" /\ b[i + 1] \in KeyChars /\ b[i + 2] = "\""
       /\ b[i + 3] = ":" /\ b[i + 4] \in DigitSet
    THEN LET without == SelectSeq(acc, LAMBDA p : p[1] # b[i + 1])
             acc2 == Append(without, <<b[i + 1], b[i + 4]>>)
         IN IF i + 5 = Len(b) /\ b[i + 5] = "}" THEN [data |-> acc2, e |-> NoError]
            ELSE IF b[i + 5] = "," THEN UnmarshalMembers(b, i + 6, acc2)
            ELSE [data |-> <<>>, e |-> SyntaxError]
    ELSE [data |-> <<>>, e |-> SyntaxError]
Unmarshal(b) ==
    IF b = <<"n", "u", "l", "l">> THEN [data |-> <<>>, e |-> NoError]
    ELSE IF b = <<"{", "}">> THEN [data |-> <<>>, e |-> NoError]
    ELSE IF Len(b) >= 1 /\ b[1] = "{" THEN UnmarshalMembers(b, 2, <<>>)
    ELSE [data |-> <<>>, e |-> SyntaxError]

-----------------------------------------------------------------------------
\* Helpers

packBodyByString(s) == [body |-> Bytes(s), length |-> Len(s)]
packBodyByBytes(b) == [body |-> Bytes(b), length |-> Len(b)]
packBodyByBytesBuffer(b) == [body |-> Bytes(b), length |-> Len(b)]
packBodyByBytesReader(b) == [body |-> Bytes(b), length |-> Len(b)]
packBodyByStringsReader(b) == [body |-> Bytes(b), length |-> Len(b)]

\* encodesParametersInURL without the DELETE case
encodesParametersInURLNoDelete(method) == method \in {GET, HEAD}

encodesParametersInURL(method) == method \in {GET, HEAD, DELETE}

-----------------------------------------------------------------------------
\* Inputs

\* An interface{} argument: its dynamic type and its value
DataValues(kv) == [type |-> "url.Values", s |-> <<>>, kv |-> kv, n |-> 0]
DataString(s) == [type |-> "string", s |-> s, kv |-> <<>>, n |-> 0]
DataBytes(s) == [type |-> "[]byte", s |-> s, kv |-> <<>>, n |-> 0]
DataBuffer(s) == [type |-> "*bytes.Buffer", s |-> s, kv |-> <<>>, n |-> 0]
DataBytesReader(s) == [type |-> "*bytes.Reader", s |-> s, kv |-> <<>>, n |-> 0]
DataStringsReader(s) == [type |-> "*strings.Reader", s |-> s, kv |-> <<>>, n |-> 0]
DataInt(n) == [type |-> "int", s |-> <<>>, kv |-> <<>>, n |-> n]
DataChan == [type |-> "chan int", s |-> <<>>, kv |-> <<>>, n |-> 0]
NoData == [type |-> "nil", s |-> <<>>, kv |-> <<>>, n |-> 0]

QueryInputs == {DataValues(<< <<"q", "1">> >>), DataInt(42)}
ParameterInputs == {DataValues(<< <<"b", "2">>, <<"a", "1">> >>), DataBuffer(<<"x">>),
                    DataInt(42), DataChan}
EncodingInputs == {<<"j", "s", "o", "n">>, <<>>}
StatusCodes == {199, 200, 201, 204, 299, 300}
StatusCodeLists == {<<>>, <<201, 204>>}

JSONBody == <<"{", "\"", "x", "\"", ":", "1", "}">>
NotJSONBody == <<"n", "o", "t", " ", "j", "s", "o", "n">>
ConnectionRefused == [kind |-> "transport", msg |-> <<"connection refused">>]
Timeout == [kind |-> "transport", msg |-> <<"i/o timeout">>]
Answer(status, body) == [e |-> NoError, status |-> status, body |-> body]
Failure(e) == [e |-> e, status |-> 0, body |-> <<>>]
Outcomes == {Answer(s, JSONBody) : s \in StatusCodes}
            \cup {Answer(200, NotJSONBody)}
            \cup {Failure(ConnectionRefused), Failure(Timeout)}

ApplicationJSON == <<"a", "p", "p", "l", "i", "c", "a", "t", "i", "o", "n", "/", "j", "s", "o", "n">>
FormURLEncoded == <<"a", "p", "p", "l", "i", "c", "a", "t", "i", "o", "n", "/", "x", "-", "w", "w", "w", "-",
                    "f", "o", "r", "m", "-", "u", "r", "l", "e", "n", "c", "o", "d", "e", "d">>

NoOp == [name |-> "", data |-> NoData, t |-> <<>>, codes |-> <<>>]
Op(name) == [NoOp EXCEPT !.name = name]

-----------------------------------------------------------------------------
\* State after construction: a method and a parsed URL, nothing else set

Init ==
    /\ Method \in Methods
    /\ RawQuery = <<>>
    /\ ContentType = <<>>
    /\ Body = NilBytes
    /\ Length = 0
    /\ req = NilRequest
    /\ res = NilResponse
    /\ isBodyClosed = FALSE
    /\ Buffer = NilBytes
    /\ err = NoError
    /\ transport \in Outcomes
    /\ sent = <<>>
    /\ ops = <<>>
    /\ calls = <<>>
    /\ panicked = FALSE

\* The caller performs one more operation
Step(op) ==
    /\ ~panicked
    /\ Len(ops) < MaxOps
    /\ ops' = Append(ops, op)

-----------------------------------------------------------------------------
\* Configuration

Query(data) ==
    /\ Step([Op("Query") EXCEPT !.data = data])
    /\ RawQuery' = CASE data.type = "url.Values" -> Encode(data.kv)
                     [] data.type = "string"     -> data.s
                     [] data.type = "[]byte"     -> data.s
                     [] OTHER                    -> <<>>
    /\ UNCHANGED <<Method, ContentType, Body, Length, req, res, isBodyClosed, Buffer, err,
                   transport, sent, calls, panicked>>

\* The type switch of Parameters: the body and length it packs, or the marshaling error
packParameters(data) ==
    CASE data.type = "url.Values"      -> [p |-> packBodyByString(Encode(data.kv)), e |-> NoError]
      [] data.type = "string"          -> [p |-> packBodyByString(data.s), e |-> NoError]
      [] data.type = "[]byte"          -> [p |-> packBodyByBytes(data.s), e |-> NoError]
      [] data.type = "*bytes.Buffer"   -> [p |-> packBodyByBytesBuffer(data.s), e |-> NoError]
      [] data.type = "*bytes.Reader"   -> [p |-> packBodyByBytesReader(data.s), e |-> NoError]
      [] data.type = "*strings.Reader" -> [p |-> packBodyByStringsReader(data.s), e |-> NoError]
      [] OTHER -> LET m == Marshal(data)
                  IN IF m.e # NoError
                     THEN [p |-> [body |-> NilBytes, length |-> 0], e |-> m.e]
                     ELSE [p |-> packBodyByBytes(m.b), e |-> NoError]

\* Parameters without the return after r.err = err: the nil slice is packed as the body
setParametersNoReturn(data) ==
    IF encodesParametersInURL(Method)
    THEN [Body |-> Body, Length |-> Length, err |-> err]
    ELSE LET k == packParameters(data)
         IN IF k.e # NoError
            THEN [Body |-> Bytes(<<>>), Length |-> 0, err |-> k.e]
            ELSE [Body |-> k.p.body, Length |-> k.p.length, err |-> err]

\* The builder fields Parameters(data) leaves behind
setParameters(data) ==
    IF encodesParametersInURL(Method)
    THEN [Body |-> Body, Length |-> Length, err |-> err]
    ELSE LET k == packParameters(data)
         IN IF k.e # NoError
            THEN [Body |-> Body, Length |-> Length, err |-> k.e]
            ELSE IF ~k.p.body.nil
                 THEN [Body |-> k.p.body, Length |-> k.p.length, err |-> err]
                 ELSE [Body |-> Body, Length |-> Length, err |-> err]

Parameters(data) ==
    /\ Step([Op("Parameters") EXCEPT !.data = data])
    /\ Body' = setParameters(data).Body
    /\ Length' = setParameters(data).Length
    /\ err' = setParameters(data).err
    /\ UNCHANGED <<Method, RawQuery, ContentType, req, res, isBodyClosed, Buffer,
                   transport, sent, calls, panicked>>

Encoding(t) ==
    /\ Step([Op("Encoding") EXCEPT !.t = t])
    /\ LET u == ToUpper(t)
           v == IF u = <<"J", "S", "O", "N">> THEN ApplicationJSON ELSE u
       IN ContentType' = IF v # <<>> THEN v ELSE ContentType
    /\ UNCHANGED <<Method, RawQuery, Body, Length, req, res, isBodyClosed, Buffer, err,
                   transport, sent, calls, panicked>>

-----------------------------------------------------------------------------
\* Dispatch and memoization

\* r.Do(): the fields it writes, the request the client is handed, and what it returns
Do ==
    LET ct == IF ContentType = <<>> THEN FormURLEncoded ELSE ContentType
        rq == [nil |-> FALSE, Method |-> Method, hasBody |-> ~Body.nil,
               Body |-> Body.b, ContentLength |-> IF Body.nil THEN 0 ELSE Length]
        wire == [Method |-> Method, RawQuery |-> RawQuery, ContentType |-> ct,
                 hasBody |-> ~Body.nil, Body |-> Body.b,
                 ContentLength |-> IF Body.nil THEN 0 ELSE Length]
    IN IF transport.e # NoError
       THEN [req |-> rq, ContentType |-> ct, res |-> res, Buffer |-> Buffer,
             sent |-> Append(sent, wire), ret |-> NilBytes, e |-> transport.e]
       ELSE [req |-> rq, ContentType |-> ct,
             res |-> [nil |-> FALSE, StatusCode |-> transport.status],
             Buffer |-> Bytes(transport.body),
             sent |-> Append(sent, wire), ret |-> Bytes(transport.body), e |-> NoError]

\* r.response() without r.isBodyClosed = true
responseNoMark ==
    IF err # NoError
    THEN [req |-> req, ContentType |-> ContentType, res |-> res, Buffer |-> Buffer,
          sent |-> sent, isBodyClosed |-> isBodyClosed, ret |-> Buffer, e |-> err]
    ELSE IF isBodyClosed
    THEN [req |-> req, ContentType |-> ContentType, res |-> res, Buffer |-> Buffer,
          sent |-> sent, isBodyClosed |-> isBodyClosed, ret |-> Buffer, e |-> NoError]
    ELSE [req |-> Do.req, ContentType |-> Do.ContentType, res |-> Do.res,
          Buffer |-> Do.Buffer, sent |-> Do.sent, isBodyClosed |-> isBodyClosed,
          ret |-> Do.ret, e |-> Do.e]

\* r.response() marking the dispatch done only when Do succeeded
responseRetry ==
    IF err # NoError
    THEN [req |-> req, ContentType |-> ContentType, res |-> res, Buffer |-> Buffer,
          sent |-> sent, isBodyClosed |-> isBodyClosed, ret |-> Buffer, e |-> err]
    ELSE IF isBodyClosed
    THEN [req |-> req, ContentType |-> ContentType, res |-> res, Buffer |-> Buffer,
          sent |-> sent, isBodyClosed |-> isBodyClosed, ret |-> Buffer, e |-> NoError]
    ELSE [req |-> Do.req, ContentType |-> Do.ContentType, res |-> Do.res,
          Buffer |-> Do.Buffer, sent |-> Do.sent, isBodyClosed |-> (Do.e = NoError),
          ret |-> Do.ret, e |-> Do.e]

\* r.response() returning nil, r.err when the sticky error is set
responseNilOnError ==
    IF err # NoError
    THEN [req |-> req, ContentType |-> ContentType, res |-> res, Buffer |-> Buffer,
          sent |-> sent, isBodyClosed |-> isBodyClosed, ret |-> NilBytes, e |-> err]
    ELSE IF isBodyClosed
    THEN [req |-> req, ContentType |-> ContentType, res |-> res, Buffer |-> Buffer,
          sent |-> sent, isBodyClosed |-> isBodyClosed, ret |-> Buffer, e |-> NoError]
    ELSE [req |-> Do.req, ContentType |-> Do.ContentType, res |-> Do.res,
          Buffer |-> Do.Buffer, sent |-> Do.sent, isBodyClosed |-> TRUE,
          ret |-> Do.ret, e |-> Do.e]

\* r.response(): what it returns and the fields it leaves behind
response ==
    IF err # NoError
    THEN [req |-> req, ContentType |-> ContentType, res |-> res, Buffer |-> Buffer,
          sent |-> sent, isBodyClosed |-> isBodyClosed, ret |-> Buffer, e |-> err]
    ELSE IF isBodyClosed
    THEN [req |-> req, ContentType |-> ContentType, res |-> res, Buffer |-> Buffer,
          sent |-> sent, isBodyClosed |-> isBodyClosed, ret |-> Buffer, e |-> NoError]
    ELSE [req |-> Do.req, ContentType |-> Do.ContentType, res |-> Do.res,
          Buffer |-> Do.Buffer, sent |-> Do.sent, isBodyClosed |-> TRUE,
          ret |-> Do.ret, e |-> Do.e]

\* The fields written by a call of r.response() that returned r
Responded(r) ==
    /\ req' = r.req
    /\ ContentType' = r.ContentType
    /\ res' = r.res
    /\ Buffer' = r.Buffer
    /\ sent' = r.sent
    /\ isBodyClosed' = r.isBodyClosed

\* The record of one call that reached r.response().  `delivered` is FALSE when
\* the call panicked before completing; body and data are the handler's third
\* argument, e its error argument; errAfter is r.err when the call ended.
Call(name, r, delivered, body, data, e, errAfter) ==
    [op |-> name, at |-> Len(ops) + 1, delivered |-> delivered,
     body |-> body, data |-> data, e |-> e,
     errBefore |-> err, errAfter |-> errAfter,
     sentBefore |-> Len(sent), sentAfter |-> Len(r.sent), res |-> r.res]

Response ==
    /\ Step(Op("Response"))
    /\ Responded(response)
    /\ calls' = Append(calls, Call("Response", response, TRUE, response.ret, <<>>,
                                   response.e, err))
    /\ UNCHANGED <<Method, RawQuery, Body, Length, err, transport, panicked>>

\* body.Bytes() dereferences body
ResponseBytes ==
    /\ Step(Op("ResponseBytes"))
    /\ Responded(response)
    /\ IF response.ret.nil
       THEN /\ panicked' = TRUE
            /\ calls' = Append(calls, Call("ResponseBytes", response, FALSE, NilBytes, <<>>,
                                           NoError, err))
       ELSE /\ panicked' = FALSE
            /\ calls' = Append(calls, Call("ResponseBytes", response, TRUE,
                                           Bytes(response.ret.b), <<>>, response.e, err))
    /\ UNCHANGED <<Method, RawQuery, Body, Length, err, transport>>

\* body.String() of a nil *bytes.Buffer is "<nil>"
ResponseString ==
    /\ Step(Op("ResponseString"))
    /\ Responded(response)
    /\ LET text == IF response.ret.nil THEN <<"<", "n", "i", "l", ">">> ELSE response.ret.b
       IN calls' = Append(calls, Call("ResponseString", response, TRUE, Bytes(text), <<>>,
                                      response.e, err))
    /\ UNCHANGED <<Method, RawQuery, Body, Length, err, transport, panicked>>

\* ResponseJSON keeping the decode error in r.err
ResponseJSONSticky ==
    /\ Step(Op("ResponseJSON"))
    /\ Responded(response)
    /\ IF response.e # NoError
       THEN /\ panicked' = FALSE
            /\ err' = err
            /\ calls' = Append(calls, Call("ResponseJSON", response, TRUE, NilBytes, <<>>,
                                           response.e, err))
       ELSE IF response.ret.nil
       THEN /\ panicked' = TRUE
            /\ err' = err
            /\ calls' = Append(calls, Call("ResponseJSON", response, FALSE, NilBytes, <<>>,
                                           NoError, err))
       ELSE /\ panicked' = FALSE
            /\ LET u == Unmarshal(response.ret.b)
               IN /\ err' = u.e
                  /\ calls' = Append(calls, Call("ResponseJSON", response, TRUE, NilBytes,
                                                 u.data, u.e, u.e))
    /\ UNCHANGED <<Method, RawQuery, Body, Length, transport>>

ResponseJSON ==
    /\ Step(Op("ResponseJSON"))
    /\ Responded(response)
    /\ IF response.e # NoError
       THEN /\ panicked' = FALSE
            /\ calls' = Append(calls, Call("ResponseJSON", response, TRUE, NilBytes, <<>>,
                                           response.e, err))
       ELSE IF response.ret.nil
       THEN /\ panicked' = TRUE
            /\ calls' = Append(calls, Call("ResponseJSON", response, FALSE, NilBytes, <<>>,
                                           NoError, err))
       ELSE /\ panicked' = FALSE
            /\ LET u == Unmarshal(response.ret.b)
               IN calls' = Append(calls, Call("ResponseJSON", response, TRUE, NilBytes,
                                              u.data, u.e, err))
    /\ UNCHANGED <<Method, RawQuery, Body, Length, err, transport>>

-----------------------------------------------------------------------------
\* Validation

\* validateStatusCode with the upper end of the default range included
validateStatusCodeInclusive(statusCodes, statusCode) ==
    IF Len(statusCodes) > 0
    THEN \E i \in 1..Len(statusCodes) : statusCode = statusCodes[i]
    ELSE statusCode >= 200 /\ statusCode <= 300

validateStatusCode(statusCodes, statusCode) ==
    IF Len(statusCodes) > 0
    THEN \E i \in 1..Len(statusCodes) : statusCode = statusCodes[i]
    ELSE statusCode >= 200 /\ statusCode < 300

InvalidStatusCode(statusCode) ==
    [kind |-> "status", msg |-> <<"http: invalid status code ">> \o Itoa(statusCode)]

\* r.res.StatusCode dereferences r.res
ValidateStatusCode(statusCodes) ==
    /\ Step([Op("ValidateStatusCode") EXCEPT !.codes = statusCodes])
    /\ Responded(response)
    /\ IF response.res.nil
       THEN /\ panicked' = TRUE
            /\ err' = err
       ELSE /\ panicked' = FALSE
            /\ err' = IF ~validateStatusCode(statusCodes, response.res.StatusCode)
                      THEN InvalidStatusCode(response.res.StatusCode)
                      ELSE err
    /\ calls' = Append(calls, Call("ValidateStatusCode", response, ~panicked', NilBytes, <<>>,
                                   NoError, err'))
    /\ UNCHANGED <<Method, RawQuery, Body, Length, transport>>

-----------------------------------------------------------------------------

Next ==
    \/ \E data \in QueryInputs : Query(data)
    \/ \E data \in ParameterInputs : Parameters(data)
    \/ \E t \in EncodingInputs : Encoding(t)
    \/ Response
    \/ ResponseBytes
    \/ ResponseString
    \/ ResponseJSON
    \/ \E statusCodes \in StatusCodeLists : ValidateStatusCode(statusCodes)

Spec == Init /\ [][Next]_vars

-----------------------------------------------------------------------------
\* Properties

AccessorOps == {"Response", "ResponseBytes", "ResponseString", "ResponseJSON"}
IsAccessor(c) == c.op \in AccessorOps
AccessorCalls == SelectSeq(calls, IsAccessor)
URLMethods == {"GET", "HEAD", "DELETE"}
BodyShapes == {"url.Values", "string", "[]byte", "*bytes.Buffer", "*bytes.Reader", "*strings.Reader"}
NilText == <<"<", "n", "i", "l", ">">>

\* The operations performed strictly between calls i and j
Between(i, j) == {ops[k] : k \in (calls[i].at + 1)..(calls[j].at - 1)}

\* A Parameters call that reaches json.Marshal on a body-carrying builder and fails
MarshalFails(op) ==
    /\ op.name = "Parameters"
    /\ Method \notin URLMethods
    /\ op.data.type \notin BodyShapes
    /\ Marshal(op.data).e # NoError

\* The last step was the operation `name`
Performed(name) == Len(ops') = Len(ops) + 1 /\ ops'[Len(ops')].name = name

\* C1: whatever configuration, accessor and ValidateStatusCode calls are made,
\* and whether the transport answers or fails, the client is handed the
\* request at most once.
SendAtMostOnce == Len(sent) <= 1

SendAtMostOnceWitness ==
    /\ Len(sent) = 1
    /\ Len(calls) >= 2
    /\ calls[Len(calls)].sentBefore = 1
    /\ \E k \in 1..Len(ops) : ops[k].name \in {"Query", "Parameters", "Encoding"}

\* C2: when the dispatch fails with transport error E, every accessor call that
\* returns, the first and every later one, hands its handler E and no body
\* (stated for the calls made with no sticky error set by Parameters).
TransportErrorReportedToEveryAccessor ==
    \A i \in 1..Len(calls) :
        (/\ IsAccessor(calls[i])
         /\ calls[i].delivered
         /\ transport.e # NoError
         /\ calls[i].sentAfter = 1
         /\ calls[i].errBefore = NoError)
        => /\ calls[i].e = transport.e
           /\ calls[i].data = <<>>
           /\ calls[i].body.nil \/ calls[i].body.b \in {<<>>, NilText}

\* C3: no operation aborts the process.
NoPanic == ~panicked

\* C4: once the sticky error is set it stays set, and every later accessor call
\* hands its handler a non-nil error and sends nothing.
StickyErrorReportedToEveryAccessor ==
    \A i \in 1..Len(calls) :
        calls[i].errBefore # NoError
        => /\ calls[i].errAfter # NoError
           /\ calls[i].sentAfter = calls[i].sentBefore
           /\ IsAccessor(calls[i]) => calls[i].delivered /\ calls[i].e # NoError

\* C5 as stated: on any builder, two accessor calls dispatch exactly once.
TwoCallsDispatchOnce == Len(AccessorCalls) >= 2 => Len(sent) = 1

\* C5 amended: on a builder whose sticky error is unset when the first accessor
\* is called, two accessor calls dispatch exactly once.
TwoCallsDispatchOnceUnlessSticky ==
    (Len(AccessorCalls) >= 2 /\ AccessorCalls[1].errBefore = NoError) => Len(sent) = 1

TwoCallsDispatchOnceWitness ==
    /\ Len(AccessorCalls) >= 2
    /\ AccessorCalls[1].errBefore = NoError
    /\ AccessorCalls[1].sentBefore = 0
    /\ AccessorCalls[2].sentBefore = 1
    /\ transport.e # NoError

\* Calls i < j of the same accessor, i made after a successful dispatch with no
\* sticky error, and only configuration calls between them
AfterDispatchPair(i, j) ==
    /\ i < j
    /\ IsAccessor(calls[i]) /\ calls[j].op = calls[i].op
    /\ transport.e = NoError
    /\ calls[i].sentAfter = 1
    /\ calls[i].errBefore = NoError
    /\ \A o \in Between(i, j) : o.name \in {"Query", "Parameters", "Encoding"}

\* C6 as stated: after a successful dispatch, configuration calls change nothing
\* an accessor delivers: the same body bytes and the same error value.
ConfigurationKeepsOutcome ==
    \A i, j \in 1..Len(calls) :
        AfterDispatchPair(i, j)
        => /\ calls[j].delivered
           /\ calls[j].body = calls[i].body
           /\ calls[j].data = calls[i].data
           /\ calls[j].e = calls[i].e

\* C6 amended: after a successful dispatch, configuration calls leave the cached
\* buffer unchanged, so a later accessor call delivers the same body bytes; it
\* delivers the same error and decoded data too unless a Parameters call in
\* between failed to marshal, and then it delivers that marshaling error.
ConfigurationKeepsBuffer ==
    \A i, j \in 1..Len(calls) :
        AfterDispatchPair(i, j)
        => /\ calls[j].delivered
           /\ calls[j].body = calls[i].body
           /\ IF \E o \in Between(i, j) : MarshalFails(o)
              THEN calls[j].e.kind = "marshal" /\ calls[j].data = <<>>
              ELSE calls[j].e = calls[i].e /\ calls[j].data = calls[i].data

ConfigurationKeepsBufferWitness ==
    \E i, j \in 1..Len(calls) :
        /\ AfterDispatchPair(i, j)
        /\ \E o \in Between(i, j) : MarshalFails(o)
        /\ calls[j].op = "ResponseBytes"
        /\ calls[j].body = Bytes(JSONBody)

\* C7: a JSON decode failure is handed to that one handler only: the sticky
\* error stays unset and the buffer intact, so a later Response, ResponseBytes
\* or ResponseString call delivers the raw bytes, a nil error, and sends nothing.
DecodeFailureIsLocal ==
    \A i \in 1..Len(calls) :
        (calls[i].op = "ResponseJSON" /\ calls[i].delivered /\ calls[i].e.kind = "decode")
        => /\ calls[i].errAfter = NoError
           /\ \A j \in (i + 1)..Len(calls) :
                (/\ calls[j].op \in {"Response", "ResponseBytes", "ResponseString"}
                 /\ \A o \in Between(i, j) : o.name \notin {"Parameters", "ValidateStatusCode"})
                => /\ calls[j].delivered
                   /\ calls[j].e = NoError
                   /\ calls[j].body = Bytes(transport.body)
                   /\ calls[j].sentAfter = calls[i].sentAfter

DecodeFailureIsLocalWitness ==
    \E i, j \in 1..Len(calls) :
        /\ i < j
        /\ calls[i].op = "ResponseJSON" /\ calls[i].e.kind = "decode"
        /\ calls[j].op = "ResponseBytes"
        /\ calls[j].body = Bytes(NotJSONBody)
        /\ Len(sent) = 1

\* C8: on a GET, HEAD or DELETE builder Parameters changes no builder field,
\* whatever its input, and no request of such a builder is sent with a body.
ParametersIsNoOpForURLMethods ==
    [][/\ (Performed("Parameters") /\ Method \in URLMethods) => UNCHANGED builder
       /\ \A i \in 1..Len(sent') : sent'[i].Method \in URLMethods => ~sent'[i].hasBody]_vars

ParametersIsNoOpWitness ==
    /\ Method = DELETE
    /\ Len(ops) >= 2
    /\ ops[1].name = "Parameters" /\ ops[1].data = DataChan
    /\ Len(sent) = 1 /\ ~sent[1].hasBody
    /\ err = NoError

\* The number a sequence of decimal digits denotes
RECURSIVE ParseDecimal(_)
ParseDecimal(digits) ==
    IF digits = <<>> THEN 0
    ELSE 10 * ParseDecimal(SubSeq(digits, 1, Len(digits) - 1))
         + (CHOOSE d \in 0..9 : DigitChars[d + 1] = digits[Len(digits)])

Accepted(allowed, s) ==
    \/ allowed # <<>> /\ \E k \in 1..Len(allowed) : allowed[k] = s
    \/ allowed = <<>> /\ s \in 200..299

\* C9: with a response of status s and no sticky error before,
\* ValidateStatusCode(allowed...) leaves the sticky error unset exactly when s
\* is one of allowed, or allowed is empty and 200 <= s < 300; otherwise it sets
\* the sticky error to an error naming s.
ValidateStatusCodeDecides ==
    \A i \in 1..Len(calls) :
        (calls[i].op = "ValidateStatusCode" /\ calls[i].errBefore = NoError /\ ~calls[i].res.nil)
        => LET s == calls[i].res.StatusCode
               allowed == ops[calls[i].at].codes
               e == calls[i].errAfter
           IN /\ calls[i].delivered
              /\ (e = NoError) <=> Accepted(allowed, s)
              /\ e # NoError => /\ e.kind = "status"
                                /\ e.msg[1] = "http: invalid status code "
                                /\ \A k \in 2..Len(e.msg) : e.msg[k] \in DigitSet
                                /\ ParseDecimal(Tail(e.msg)) = s

ValidateStatusCodeWitness ==
    \E i \in 1..Len(calls) :
        /\ calls[i].op = "ValidateStatusCode" /\ calls[i].errBefore = NoError
        /\ ops[calls[i].at].codes = <<>>
        /\ ~calls[i].res.nil /\ calls[i].res.StatusCode = 300
        /\ calls[i].errAfter.kind = "status"

\* C10: on a body-carrying builder, Parameters with a value of none of the
\* body shapes whose JSON marshaling fails sets the sticky error to the
\* marshaling error and keeps Body and Length as they were; nothing is sent.
MarshalFailureLeavesBody ==
    [][(Performed("Parameters") /\ MarshalFails(ops'[Len(ops')]))
       => /\ err'.kind = "marshal"
          /\ Body' = Body /\ Length' = Length
          /\ sent' = sent]_vars

MarshalFailureWitness ==
    /\ Method = POST
    /\ Len(ops) = 2
    /\ ops[1].name = "Parameters" /\ ops[1].data.type = "*bytes.Buffer"
    /\ ops[2].name = "Parameters" /\ ops[2].data = DataChan
    /\ err.kind = "marshal"
    /\ Body = Bytes(<<"x">>) /\ Length = 1

====
